---- MODULE Spec2Model ----
\* A model of src/CarrierCodes.py: the CarrierCodes registry (raw_codes, the
\* two lazily filled caches) and every public method as one action.
\* Python strings are sequences of one-character strings, so that upper(),
\* strip(), split(","), the regular expression and the renderings are computed.
EXTENDS Integers, Sequences, FiniteSets, TLC

VARIABLES raw_codes, _organized_codes, _all_codes, ret, undo

vars == <<raw_codes, _organized_codes, _all_codes, ret, undo>>

\* ------------------------------------------------------------- bounds
\* The largest number of carriers the registry is allowed to grow to.
MaxCarriers == 2

\* ---------------------------------------------------------- characters
\* r"^\d{4}$": the number of digits of the default code_pattern.
PatternDigits == 4

\* json.dumps(organized, indent=indent): the default indent of display().
DefaultIndent == 4

Digits == {"0", "1", "3", "9"}

Whitespace == {" "}

\* ord() of the characters in use (their order under Python's str comparison).
Ord(c) ==
    CASE c = "\n" -> 10 [] c = " " -> 32 [] c = "\"" -> 34 [] c = "," -> 44
      [] c = "0" -> 48 [] c = "1" -> 49 [] c = "3" -> 51 [] c = "9" -> 57
      [] c = ":" -> 58 [] c = "C" -> 67 [] c = "I" -> 73 [] c = "M" -> 77
      [] c = "N" -> 78 [] c = "R" -> 82 [] c = "T" -> 84 [] c = "[" -> 91
      [] c = "]" -> 93 [] c = "a" -> 97 [] c = "c" -> 99 [] c = "d" -> 100
      [] c = "e" -> 101 [] c = "i" -> 105 [] c = "m" -> 109 [] c = "o" -> 111
      [] c = "r" -> 114 [] c = "s" -> 115 [] c = "t" -> 116 [] c = "x" -> 120
      [] c = "{" -> 123 [] c = "}" -> 125

\* str.upper() on one character.
UpperChar(c) ==
    CASE c = "a" -> "A" [] c = "c" -> "C" [] c = "d" -> "D" [] c = "e" -> "E"
      [] c = "i" -> "I" [] c = "m" -> "M" [] c = "o" -> "O" [] c = "r" -> "R"
      [] c = "s" -> "S" [] c = "t" -> "T" [] c = "x" -> "X"
      [] OTHER -> c

\* str.upper()
Upper(s) == [i \in 1..Len(s) |-> UpperChar(s[i])]

\* str.strip(): the string without its leading and trailing whitespace.
Strip(s) ==
    LET keep == {i \in 1..Len(s) : s[i] \notin Whitespace}
    IN IF keep = {} THEN <<>>
       ELSE LET lo == CHOOSE i \in keep : \A j \in keep : i <= j
                hi == CHOOSE i \in keep : \A j \in keep : j <= i
            IN SubSeq(s, lo, hi)

\* str.split(","): the pieces between the commas, the empty ones included.
RECURSIVE SplitComma(_)
SplitComma(s) ==
    LET commas == {i \in 1..Len(s) : s[i] = ","}
    IN IF commas = {} THEN <<s>>
       ELSE LET k == CHOOSE i \in commas : \A j \in commas : i <= j
            IN <<SubSeq(s, 1, k - 1)>> \o SplitComma(SubSeq(s, k + 1, Len(s)))

\* sep.join(parts)
RECURSIVE Join(_, _)
Join(sep, parts) ==
    IF Len(parts) = 0 THEN <<>>
    ELSE IF Len(parts) = 1 THEN parts[1]
    ELSE parts[1] \o sep \o Join(sep, Tail(parts))

\* a < b for Python strings (lexicographic by code point).
RECURSIVE StrLess(_, _)
StrLess(a, b) ==
    IF Len(b) = 0 THEN FALSE
    ELSE IF Len(a) = 0 THEN TRUE
    ELSE IF a[1] # b[1] THEN Ord(a[1]) < Ord(b[1])
    ELSE StrLess(Tail(a), Tail(b))

\* sorted(list of str)
Sorted(s) == SortSeq(s, StrLess)

\* self._code_pattern.match(code) for the default pattern ^\d{4}$ ; a code is
\* stripped before it is matched, so the "$ before a final newline" case of
\* re cannot occur.
PatternMatch(code) ==
    /\ Len(code) = PatternDigits
    /\ \A i \in 1..Len(code) : code[i] \in Digits

\* The values an Optional attribute takes: None, or the value it holds.
None == <<>>

Some(v) == <<v>>

\* ------------------------------------------------------------ dict
\* A Python dict is the sequence of its items in insertion order.
DictKeys(d) == {d[i].k : i \in 1..Len(d)}

DictHas(d, key) == key \in DictKeys(d)

DictIndex(d, key) == CHOOSE i \in 1..Len(d) : d[i].k = key

\* d.get(key, default)
DictGet(d, key, default) == IF DictHas(d, key) THEN d[DictIndex(d, key)].v ELSE default

\* d[key] = value: an existing key keeps its place, a new one goes last.
DictSet(d, key, value) ==
    IF DictHas(d, key)
    THEN [d EXCEPT ![DictIndex(d, key)] = [k |-> key, v |-> value]]
    ELSE Append(d, [k |-> key, v |-> value])

\* del d[key], for a key that is present.
DictDel(d, key) ==
    LET n == DictIndex(d, key)
    IN SubSeq(d, 1, n - 1) \o SubSeq(d, n + 1, Len(d))

\* ------------------------------------------------------- _organize
\* A codes value is [str |-> characters], [list |-> items] or, for any other
\* type, [other |-> TRUE]: isinstance(codes, str), isinstance(codes, list).
IsStr(codes) == "str" \in DOMAIN codes

IsList(codes) == "list" \in DOMAIN codes

\* [code.strip() for code in codes.split(",") if code.strip()]
\* [str(code).strip() for code in codes if str(code).strip()]
\* and [] for a value that is neither a str nor a list.
CodesArray(codes) ==
    LET NonBlank(t) == Strip(t) # <<>>
        parts == IF IsStr(codes) THEN SplitComma(codes.str)
                 ELSE IF IsList(codes) THEN codes.list
                 ELSE <<>>
        kept == SelectSeq(parts, NonBlank)
    IN [i \in 1..Len(kept) |-> Strip(kept[i])]

\* ValidCodes without the pattern filter: every non-empty token is kept.
ValidCodesUnfiltered(codes) == CodesArray(codes)

\* valid_codes = [code for code in codes_array if self._code_pattern.match(code)]
ValidCodes(codes) == SelectSeq(CodesArray(codes), PatternMatch)

\* The loop of _organize over raw.items(), from the empty dict.
RECURSIVE OrganizeRaw(_)
OrganizeRaw(raw) ==
    IF Len(raw) = 0 THEN <<>>
    ELSE LET last == raw[Len(raw)]
         IN DictSet(OrganizeRaw(SubSeq(raw, 1, Len(raw) - 1)),
                    Upper(last.k), ValidCodes(last.v))

\* _organize(): the cached dict when there is one, else the dict computed
\* from raw (which the method also stores in self._organized_codes).
_organize(raw, org) == IF org # None THEN org[1] ELSE OrganizeRaw(raw)

\* (code for codes in organized.values() for code in codes), as a list.
RECURSIVE Flatten(_)
Flatten(organized) ==
    IF Len(organized) = 0 THEN <<>>
    ELSE organized[1].v \o Flatten(Tail(organized))

SeqToSet(s) == {s[i] : i \in 1..Len(s)}

\* get_all_codes(): the cached set when there is one, else the set of the
\* codes of _organize() (which the method also stores in self._all_codes).
AllCodes(raw, org, all) ==
    IF all # None THEN all[1] ELSE SeqToSet(Flatten(_organize(raw, org)))

\* Counter(iterable): code -> count, in order of first occurrence.
RECURSIVE Counter(_)
Counter(codes) ==
    IF Len(codes) = 0 THEN <<>>
    ELSE LET c == Counter(SubSeq(codes, 1, Len(codes) - 1))
             code == codes[Len(codes)]
         IN DictSet(c, code, DictGet(c, code, 0) + 1)

\* ------------------------------------------------------- renderings
Spaces(n) == [i \in 1..n |-> " "]

Quoted(s) == <<"\"">> \o s \o <<"\"">>

\* json.dumps of a list of str at nesting depth 1, with indent.
JsonList(codes, indent) ==
    IF Len(codes) = 0 THEN <<"[", "]">>
    ELSE <<"[", "\n">>
         \o Join(<<",", "\n">>,
                 [i \in 1..Len(codes) |-> Spaces(2 * indent) \o Quoted(codes[i])])
         \o <<"\n">> \o Spaces(indent) \o <<"]">>

\* json.dumps(organized, indent=indent)
JsonDumps(organized, indent) ==
    IF Len(organized) = 0 THEN <<"{", "}">>
    ELSE <<"{", "\n">>
         \o Join(<<",", "\n">>,
                 [i \in 1..Len(organized) |->
                     Spaces(indent) \o Quoted(organized[i].k) \o <<":", " ">>
                     \o JsonList(organized[i].v, indent)])
         \o <<"\n", "}">>

NoCodes == <<"N", "o", " ", "c", "o", "d", "e", "s">>

CsvHeader == <<"c", "a", "r", "r", "i", "e", "r", ",", "c", "o", "d", "e", "s">>

\* f"{carrier}: {', '.join(codes) if codes else 'No codes'}", joined by "\n"
PlainText(organized) ==
    Join(<<"\n">>,
         [i \in 1..Len(organized) |->
             organized[i].k \o <<":", " ">>
             \o (IF Len(organized[i].v) > 0
                 THEN Join(<<",", " ">>, organized[i].v) ELSE NoCodes)])

\* "carrier,codes" then f"{carrier},\"{','.join(codes)}\"", joined by "\n"
CsvText(organized) ==
    Join(<<"\n">>,
         <<CsvHeader>> \o
         [i \in 1..Len(organized) |->
             organized[i].k \o <<",">> \o Quoted(Join(<<",">>, organized[i].v))])

\* The value display() returns for a format_type.
Render(organized, format_type, indent) ==
    IF format_type = "json" THEN JsonDumps(organized, indent)
    ELSE IF format_type = "plain" THEN PlainText(organized)
    ELSE IF format_type = "csv" THEN CsvText(organized)
    ELSE <<>>

\* ---------------------------------------------------------- queries
\* organized.get(carrier_name.upper(), [])
CodesByCarrier(organized, carrier_name) == DictGet(organized, Upper(carrier_name), <<>>)

\* CarriersByCode that stops at the first carrier that has the code.
CarriersByCodeFirst(organized, search_code) ==
    LET Has(item) == search_code \in SeqToSet(item.v)
        hits == SelectSeq(organized, Has)
    IN IF Len(hits) = 0 THEN <<>> ELSE <<hits[1].k>>

\* [carrier for carrier, codes in organized.items() if search_code in codes]
CarriersByCode(organized, search_code) ==
    LET Has(item) == search_code \in SeqToSet(item.v)
        hits == SelectSeq(organized, Has)
    IN [i \in 1..Len(hits) |-> hits[i].k]

\* {carrier: len(codes) for carrier, codes in organized.items()}
CountCodes(organized) ==
    [i \in 1..Len(organized) |-> [k |-> organized[i].k, v |-> Len(organized[i].v)]]

\* DuplicateCodes without sorted(): the codes in the Counter's order.
DuplicateCodesUnsorted(organized) ==
    LET Many(item) == item.v > 1
        hits == SelectSeq(Counter(Flatten(organized)), Many)
    IN [i \in 1..Len(hits) |-> hits[i].k]

\* sorted([code for code, count in code_counts.items() if count > 1])
DuplicateCodes(organized) ==
    LET Many(item) == item.v > 1
        hits == SelectSeq(Counter(Flatten(organized)), Many)
    IN Sorted([i \in 1..Len(hits) |-> hits[i].k])

\* sorted([code for code, count in code_counts.items() if count == 1])
UniqueCodes(organized) ==
    LET Once(item) == item.v = 1
        hits == SelectSeq(Counter(Flatten(organized)), Once)
    IN Sorted([i \in 1..Len(hits) |-> hits[i].k])

\* sorted([carrier for carrier, codes in organized.items() if not codes])
NoCodeCarriers(organized) ==
    LET Empty(item) == Len(item.v) = 0
        hits == SelectSeq(organized, Empty)
    IN Sorted([i \in 1..Len(hits) |-> hits[i].k])

\* ----------------------------------------------------------- inputs
nMCI == <<"M", "C", "I">>

nmci == <<"m", "c", "i">>

nRTL == <<"R", "T">>

nIR == <<"I", "R">>

nBlank == <<" ">>

\* The carrier names the callers pass.
CarrierNames == {nMCI, nmci, nRTL, nIR, nBlank}

c0910 == <<"0", "9", "1", "0">>

c0903 == <<"0", "9", "0", "3">>

c9 == <<"9">>

c09101 == <<"0", "9", "1", "0", "1">>

\* "0903,,0903, 9, 0910": a code twice under one carrier, an empty token, a
\* token that is too short, a token to trim
vTwice ==
    [str |-> c0903 \o <<",", ",">> \o c0903 \o <<",", " ">> \o c9
             \o <<",", " ">> \o c0910]

\* [" 0910 ", "09101", "0903"]: a list, with a token to trim and one too long
vList == [list |-> << <<" ">> \o c0910 \o <<" ">>, c09101, c0903 >>]

\* a value that is neither a str nor a list (an int, None)
vOther == [other |-> TRUE]

\* The codes values the callers pass.
CodesValues == {vTwice, vList, vOther}

\* The codes the callers search for.
SearchCodes == {c0910, c0903, c9}

FormatTypes == {"json", "plain", "csv", "xml"}

\* The dicts handed to the constructor: up to MaxCarriers items, distinct keys.
ConstructorInputs ==
    LET items == [k : CarrierNames, v : CodesValues]
    IN {d \in UNION {[1..n -> items] : n \in 0..MaxCarriers} :
           \A i, j \in 1..Len(d) : d[i].k = d[j].k => i = j}

\* ------------------------------------------------------ construction
\* _validate_raw_codes: the validated dict, or the error it raises.
RECURSIVE ValidateFrom(_, _, _, _)
ValidateFrom(raw, i, validated_codes, seen_carriers) ==
    IF i > Len(raw) THEN [outcome |-> "ok", value |-> validated_codes]
    ELSE IF Strip(raw[i].k) = <<>>
         THEN [outcome |-> "CarrierCodesError: Invalid carrier name", value |-> <<>>]
    ELSE IF Upper(raw[i].k) \in seen_carriers
         THEN [outcome |-> "CarrierCodesError: Duplicate carrier name", value |-> <<>>]
    ELSE ValidateFrom(raw, i + 1, DictSet(validated_codes, raw[i].k, raw[i].v),
                      seen_carriers \cup {Upper(raw[i].k)})

_validate_raw_codes(raw) == ValidateFrom(raw, 1, <<>>, {})

\* The attributes kept in ret: those the call found.
Attributes == [raw |-> raw_codes, org |-> _organized_codes, all |-> _all_codes]

\* __init__: the attributes after a construction that does not raise; the
\* closing _check_duplicate_codes() fills the organized cache.
Init ==
    \E input \in ConstructorInputs :
        /\ _validate_raw_codes(input).outcome = "ok"
        /\ raw_codes = _validate_raw_codes(input).value
        /\ _organized_codes = Some(_organize(raw_codes, None))
        /\ _all_codes = None
        /\ ret = [op |-> "__init__", args |-> [raw_codes |-> input], outcome |-> "ok",
                  value |-> None, pre |-> [raw |-> <<>>, org |-> None, all |-> None]]
        /\ undo = None

\* ------------------------------------------------------------- reads
\* What a read leaves in ret. A returned value carries its Python type:
\* [text |-> str], [codes |-> set], [list |-> list of str], [counts |-> dict],
\* [bool |-> bool].
Returned(op, args, value) ==
    [op |-> op, args |-> args, outcome |-> "ok", value |-> value, pre |-> Attributes]

display(format_type) ==
    LET organized == _organize(raw_codes, _organized_codes)
    IN /\ _organized_codes' = Some(organized)
       /\ ret' = Returned("display", [format_type |-> format_type],
                          [text |-> Render(organized, format_type, DefaultIndent)])
       /\ UNCHANGED <<raw_codes, _all_codes, undo>>

get_all_codes ==
    /\ _organized_codes' = IF _all_codes # None THEN _organized_codes
                           ELSE Some(_organize(raw_codes, _organized_codes))
    /\ _all_codes' = Some(AllCodes(raw_codes, _organized_codes, _all_codes))
    /\ ret' = Returned("get_all_codes", <<>>,
                       [codes |-> AllCodes(raw_codes, _organized_codes, _all_codes)])
    /\ UNCHANGED <<raw_codes, undo>>

get_codes_by_carrier(carrier_name) ==
    LET organized == _organize(raw_codes, _organized_codes)
    IN /\ _organized_codes' = Some(organized)
       /\ ret' = Returned("get_codes_by_carrier", [carrier_name |-> carrier_name],
                          [list |-> CodesByCarrier(organized, carrier_name)])
       /\ UNCHANGED <<raw_codes, _all_codes, undo>>

find_carriers_by_code(search_code) ==
    LET organized == _organize(raw_codes, _organized_codes)
    IN /\ _organized_codes' = Some(organized)
       /\ ret' = Returned("find_carriers_by_code", [search_code |-> search_code],
                          [list |-> CarriersByCode(organized, search_code)])
       /\ UNCHANGED <<raw_codes, _all_codes, undo>>

count_codes_per_carrier ==
    LET organized == _organize(raw_codes, _organized_codes)
    IN /\ _organized_codes' = Some(organized)
       /\ ret' = Returned("count_codes_per_carrier", <<>>,
                          [counts |-> CountCodes(organized)])
       /\ UNCHANGED <<raw_codes, _all_codes, undo>>

\* all_codes = self.get_all_codes() fills the caches; self._organize_codes is
\* no attribute of the class, so the return statement raises AttributeError.
has_duplicate_codes ==
    /\ _organized_codes' = IF _all_codes # None THEN _organized_codes
                           ELSE Some(_organize(raw_codes, _organized_codes))
    /\ _all_codes' = Some(AllCodes(raw_codes, _organized_codes, _all_codes))
    /\ ret' = [op |-> "has_duplicate_codes", args |-> <<>>,
               outcome |-> "AttributeError", value |-> None, pre |-> Attributes]
    /\ UNCHANGED <<raw_codes, undo>>

get_duplicate_codes ==
    LET organized == _organize(raw_codes, _organized_codes)
    IN /\ _organized_codes' = Some(organized)
       /\ ret' = Returned("get_duplicate_codes", <<>>,
                          [list |-> DuplicateCodes(organized)])
       /\ UNCHANGED <<raw_codes, _all_codes, undo>>

get_unique_codes ==
    LET organized == _organize(raw_codes, _organized_codes)
    IN /\ _organized_codes' = Some(organized)
       /\ ret' = Returned("get_unique_codes", <<>>, [list |-> UniqueCodes(organized)])
       /\ UNCHANGED <<raw_codes, _all_codes, undo>>

carriers_with_no_codes ==
    LET organized == _organize(raw_codes, _organized_codes)
    IN /\ _organized_codes' = Some(organized)
       /\ ret' = Returned("carriers_with_no_codes", <<>>,
                          [list |-> NoCodeCarriers(organized)])
       /\ UNCHANGED <<raw_codes, _all_codes, undo>>

is_valid_code(code) ==
    /\ _organized_codes' = IF _all_codes # None THEN _organized_codes
                           ELSE Some(_organize(raw_codes, _organized_codes))
    /\ _all_codes' = Some(AllCodes(raw_codes, _organized_codes, _all_codes))
    /\ ret' = Returned("is_valid_code", [code |-> code],
                       [bool |-> code \in AllCodes(raw_codes, _organized_codes, _all_codes)])
    /\ UNCHANGED <<raw_codes, undo>>

\* --------------------------------------------------------- mutations
ErrExists == "CarrierCodesError: already exists"

ErrInvalid == "CarrierCodesError: Invalid carrier name"

ErrNotExist == "CarrierCodesError: does not exist"

\* CarrierExists that looks the name up as written, without upper().
CarrierExistsExact(organized, carrier) == DictHas(organized, carrier)

\* carrier_upper = carrier.upper(); carrier_upper in self._organize()
CarrierExists(organized, carrier) == DictHas(organized, Upper(carrier))

\* AddCarrier without the two assignments of None: the caches stay as they were.
AddCarrierKeepsCaches(raw, org, all, carrier, codes) ==
    LET organized == _organize(raw, org)
    IN IF DictHas(organized, Upper(carrier))
       THEN [raw |-> raw, org |-> Some(organized), all |-> all, outcome |-> ErrExists]
       ELSE IF Strip(carrier) = <<>>
       THEN [raw |-> raw, org |-> Some(organized), all |-> all, outcome |-> ErrInvalid]
       ELSE [raw |-> DictSet(raw, carrier, codes), org |-> Some(organized), all |-> all,
             outcome |-> "ok"]

\* AddCarrier that stores the entry before it checks the name.
AddCarrierAssignsFirst(raw, org, all, carrier, codes) ==
    LET organized == _organize(raw, org)
        raw2 == DictSet(raw, carrier, codes)
    IN IF DictHas(organized, Upper(carrier))
       THEN [raw |-> raw2, org |-> Some(organized), all |-> all, outcome |-> ErrExists]
       ELSE IF Strip(carrier) = <<>>
       THEN [raw |-> raw2, org |-> Some(organized), all |-> all, outcome |-> ErrInvalid]
       ELSE [raw |-> raw2, org |-> Some(_organize(raw2, None)), all |-> None,
             outcome |-> "ok"]

\* The body of add_carrier on the attributes (raw, org, all): the attributes
\* it leaves and how it ends. _organize() runs before either check, so the
\* organized cache is filled even when the call raises.
AddCarrier(raw, org, all, carrier, codes) ==
    LET organized == _organize(raw, org)
    IN IF CarrierExists(organized, carrier)
       THEN [raw |-> raw, org |-> Some(organized), all |-> all, outcome |-> ErrExists]
       ELSE IF Strip(carrier) = <<>>
       THEN [raw |-> raw, org |-> Some(organized), all |-> all, outcome |-> ErrInvalid]
       ELSE LET raw2 == DictSet(raw, carrier, codes)
            IN \* both caches set to None, then _check_duplicate_codes()
               [raw |-> raw2, org |-> Some(_organize(raw2, None)), all |-> None,
                outcome |-> "ok"]

\* RemoveCarrier without self._all_codes = None.
RemoveCarrierKeepsAllCodes(raw, org, all, carrier) ==
    LET organized == _organize(raw, org)
    IN IF ~DictHas(organized, Upper(carrier))
       THEN [raw |-> raw, org |-> Some(organized), all |-> all, outcome |-> ErrNotExist]
       ELSE IF ~DictHas(raw, carrier)
       THEN [raw |-> raw, org |-> Some(organized), all |-> all, outcome |-> "KeyError"]
       ELSE [raw |-> DictDel(raw, carrier), org |-> None, all |-> all, outcome |-> "ok"]

\* The body of remove_carrier on the attributes: del self.raw_codes[carrier]
\* looks the name up as the caller wrote it and raises KeyError when raw_codes
\* has no such key; the two assignments after it are then not reached.
RemoveCarrier(raw, org, all, carrier) ==
    LET organized == _organize(raw, org)
    IN IF ~CarrierExists(organized, carrier)
       THEN [raw |-> raw, org |-> Some(organized), all |-> all, outcome |-> ErrNotExist]
       ELSE IF ~DictHas(raw, carrier)
       THEN [raw |-> raw, org |-> Some(organized), all |-> all, outcome |-> "KeyError"]
       ELSE [raw |-> DictDel(raw, carrier), org |-> None, all |-> None, outcome |-> "ok"]

add_carrier(carrier, codes) ==
    LET r == AddCarrier(raw_codes, _organized_codes, _all_codes, carrier, codes)
        fresh == ~CarrierExists(_organize(raw_codes, _organized_codes), carrier)
    IN /\ Len(r.raw) <= MaxCarriers
       /\ raw_codes' = r.raw
       /\ _organized_codes' = r.org
       /\ _all_codes' = r.all
       /\ ret' = [op |-> "add_carrier", args |-> [carrier |-> carrier, codes |-> codes],
                  outcome |-> r.outcome, value |-> None, pre |-> Attributes]
       /\ undo' = IF fresh
                  THEN Some([carrier |-> carrier, stage |-> "added",
                             organized |-> _organize(raw_codes, _organized_codes),
                             all_codes |-> AllCodes(raw_codes, _organized_codes, _all_codes)])
                  ELSE None

remove_carrier(carrier) ==
    LET r == RemoveCarrier(raw_codes, _organized_codes, _all_codes, carrier)
    IN /\ raw_codes' = r.raw
       /\ _organized_codes' = r.org
       /\ _all_codes' = r.all
       /\ ret' = [op |-> "remove_carrier", args |-> [carrier |-> carrier],
                  outcome |-> r.outcome, value |-> None, pre |-> Attributes]
       /\ undo' = IF undo # None /\ undo[1].stage = "added" /\ undo[1].carrier = carrier
                  THEN Some([undo[1] EXCEPT !.stage = "removed"])
                  ELSE None

Next ==
    \/ \E format_type \in FormatTypes : display(format_type)
    \/ get_all_codes
    \/ \E carrier_name \in CarrierNames : get_codes_by_carrier(carrier_name)
    \/ \E search_code \in SearchCodes : find_carriers_by_code(search_code)
    \/ count_codes_per_carrier
    \/ has_duplicate_codes
    \/ get_duplicate_codes
    \/ get_unique_codes
    \/ carriers_with_no_codes
    \/ \E code \in SearchCodes : is_valid_code(code)
    \/ \E carrier \in CarrierNames, codes \in CodesValues : add_carrier(carrier, codes)
    \/ \E carrier \in CarrierNames : remove_carrier(carrier)

Spec == Init /\ [][Next]_vars

\* ============================================================ claims
ReadOps ==
    {"display", "get_all_codes", "get_codes_by_carrier", "find_carriers_by_code",
     "count_codes_per_carrier", "has_duplicate_codes", "get_duplicate_codes",
     "get_unique_codes", "carriers_with_no_codes", "is_valid_code"}

\* The organization of the current raw_codes, whatever the caches hold.
Current == OrganizeRaw(raw_codes)

\* The set of all codes of an organized dict.
CodeSet(organized) == UNION {SeqToSet(organized[i].v) : i \in 1..Len(organized)}

\* What a read must return when it is computed from the organization org.
Fresh(op, args, org) ==
    CASE op = "display" -> [text |-> Render(org, args.format_type, DefaultIndent)]
      [] op = "get_all_codes" -> [codes |-> CodeSet(org)]
      [] op = "get_codes_by_carrier" -> [list |-> CodesByCarrier(org, args.carrier_name)]
      [] op = "find_carriers_by_code" -> [list |-> CarriersByCode(org, args.search_code)]
      [] op = "count_codes_per_carrier" -> [counts |-> CountCodes(org)]
      [] op = "get_duplicate_codes" -> [list |-> DuplicateCodes(org)]
      [] op = "get_unique_codes" -> [list |-> UniqueCodes(org)]
      [] op = "carriers_with_no_codes" -> [list |-> NoCodeCarriers(org)]
      [] op = "is_valid_code" -> [bool |-> args.code \in CodeSet(org)]

\* C1: a cache that is present equals what the current raw_codes organizes to
\* (the organized dict, the set of all codes), and the value a read returned
\* is the one computed from the current raw_codes.
C1_CachesReflectRaw ==
    /\ _organized_codes # None => _organized_codes[1] = Current
    /\ _all_codes # None => _all_codes[1] = CodeSet(Current)
    /\ (ret.op \in ReadOps /\ ret.outcome = "ok") =>
           ret.value = Fresh(ret.op, ret.args, Current)

\* C1 witness: get_all_codes answered from refilled caches after an add and a
\* remove both went through.
C1_Witness ==
    /\ ret.op = "get_all_codes"
    /\ undo # None /\ undo[1].stage = "removed"
    /\ _organized_codes # None /\ _all_codes # None
    /\ Len(raw_codes) > 0

\* The registered carriers that equal name under case-insensitive comparison.
Matching(raw, name) == {i \in 1..Len(raw) : Upper(raw[i].k) = Upper(name)}

\* C2: remove_carrier raises "does not exist" exactly when no registered
\* carrier matches the name case-insensitively; otherwise it succeeds, the
\* matching entry is gone and both caches are None.
C2_RemoveIsCaseInsensitive ==
    ret.op = "remove_carrier" =>
        LET hit == Matching(ret.pre.raw, ret.args.carrier)
        IN IF hit = {}
           THEN ret.outcome = ErrNotExist /\ raw_codes = ret.pre.raw
           ELSE /\ ret.outcome = "ok"
                /\ \E i \in hit :
                       raw_codes = SubSeq(ret.pre.raw, 1, i - 1)
                                   \o SubSeq(ret.pre.raw, i + 1, Len(ret.pre.raw))
                /\ _organized_codes = None
                /\ _all_codes = None

\* The number of times a code occurs in all the carriers' code lists.
Occurrences(organized, code) ==
    Cardinality({p \in (1..Len(organized)) \X (1..Len(Flatten(organized))) :
                    /\ p[2] <= Len(organized[p[1]].v)
                    /\ organized[p[1]].v[p[2]] = code})

\* C3: has_duplicate_codes() returns a boolean, true exactly when some code
\* occurs more than once across all the carriers' code lists, which is when
\* get_duplicate_codes() is not empty.
C3_HasDuplicatesAgrees ==
    ret.op = "has_duplicate_codes" =>
        /\ ret.outcome = "ok"
        /\ ret.value = [bool |-> Len(DuplicateCodes(Current)) > 0]
        /\ ret.value.bool = (\E code \in CodeSet(Current) : Occurrences(Current, code) > 1)

\* C4: every read query returns a value and does not raise.
C4_ReadsNeverRaise == ret.op \in ReadOps => ret.outcome = "ok"

\* C5: no two keys of raw_codes are equal when uppercased, so the organized
\* form has one key per raw carrier.
C5_CarriersUnique ==
    /\ \A i, j \in 1..Len(raw_codes) :
           Upper(raw_codes[i].k) = Upper(raw_codes[j].k) => i = j
    /\ Len(_organize(raw_codes, _organized_codes)) = Len(raw_codes)
    /\ \A i \in 1..Len(raw_codes) :
           _organize(raw_codes, _organized_codes)[i].k = Upper(raw_codes[i].k)

\* C5 witness: with two carriers registered, an add under a name that differs
\* from a registered one only in letter case was refused.
C5_Witness ==
    /\ ret.op = "add_carrier" /\ ret.outcome = ErrExists
    /\ ~DictHas(raw_codes, ret.args.carrier)
    /\ Len(raw_codes) = 2

\* C6: add_carrier under a name that is already registered (case-insensitive)
\* raises the already-exists error, leaves raw_codes as it was and leaves what
\* the reads are computed from (the organized dict, the set of all codes) as
\* it was.
C6_DuplicateAddChangesNothing ==
    (ret.op = "add_carrier" /\ Matching(ret.pre.raw, ret.args.carrier) # {}) =>
        /\ ret.outcome = ErrExists
        /\ raw_codes = ret.pre.raw
        /\ _organize(raw_codes, _organized_codes) = _organize(ret.pre.raw, ret.pre.org)
        /\ AllCodes(raw_codes, _organized_codes, _all_codes)
               = AllCodes(ret.pre.raw, ret.pre.org, ret.pre.all)

\* C6 witness: a refused add whose name is a case variant of a registered
\* carrier and whose codes differ from that carrier's.
C6_Witness ==
    /\ ret.op = "add_carrier" /\ ret.outcome = ErrExists
    /\ ~DictHas(raw_codes, ret.args.carrier)
    /\ \E i \in Matching(raw_codes, ret.args.carrier) : raw_codes[i].v # ret.args.codes
    /\ ret.pre.all # None

\* C7: after add_carrier(name, codes) for a name not registered and then
\* remove_carrier(name), with any reads before, between and after,
\* get_all_codes() is what it was before the add, and so are the carriers and
\* each carrier's code list.
C7_AddThenRemoveRestores ==
    (undo # None /\ undo[1].stage = "removed") =>
        /\ AllCodes(raw_codes, _organized_codes, _all_codes) = undo[1].all_codes
        /\ _organize(raw_codes, _organized_codes) = undo[1].organized

\* C7 witness: the remove of the carrier just added went through, with the
\* all-codes cache filled between the two calls and codes added by the add.
C7_Witness ==
    /\ undo # None /\ undo[1].stage = "removed"
    /\ ret.op = "remove_carrier" /\ ret.outcome = "ok"
    /\ ret.pre.all # None
    /\ ret.pre.all[1] # undo[1].all_codes

StrictlyAscending(s) == \A i \in 1..(Len(s) - 1) : StrLess(s[i], s[i + 1])

\* C8 as stated: get_duplicate_codes() is sorted ascending and holds a code
\* exactly when find_carriers_by_code(code) has two or more carriers.
C8_DuplicateIffTwoCarriers ==
    ret.op = "get_duplicate_codes" =>
        /\ StrictlyAscending(ret.value.list)
        /\ \A code \in CodeSet(Current) \cup SearchCodes :
               code \in SeqToSet(ret.value.list) <=> Len(CarriersByCode(Current, code)) >= 2

\* C8 amended: get_duplicate_codes() is sorted ascending and holds a code
\* exactly when the code occurs two or more times in all the carriers' code
\* lists together, whether under two carriers or twice under one.
C8_DuplicateIffTwoOccurrences ==
    ret.op = "get_duplicate_codes" =>
        /\ StrictlyAscending(ret.value.list)
        /\ \A code \in CodeSet(Current) \cup SearchCodes :
               code \in SeqToSet(ret.value.list) <=> Occurrences(Current, code) >= 2

\* C8 witness: get_duplicate_codes() returned a code that a single carrier
\* lists twice, next to a code that only occurs once.
C8_Witness ==
    /\ ret.op = "get_duplicate_codes"
    /\ \E code \in SeqToSet(ret.value.list) : Len(CarriersByCode(Current, code)) = 1
    /\ \E code \in CodeSet(Current) : code \notin SeqToSet(ret.value.list)

\* A string of exactly four decimal digits, the default pattern.
FourDigits(code) ==
    /\ Len(code) = 4
    /\ \A i \in 1..Len(code) : code[i] \in {"0", "1", "2", "3", "4", "5", "6", "7", "8", "9"}

\* The tokens of a raw codes value, each with its surrounding whitespace cut.
TrimmedTokens(codes) ==
    LET parts == IF IsStr(codes) THEN SplitComma(codes.str)
                 ELSE IF IsList(codes) THEN codes.list ELSE <<>>
    IN [i \in 1..Len(parts) |-> Strip(parts[i])]

\* C9: every code of every organized list and of get_all_codes() is not empty,
\* has no surrounding whitespace and has the four digits of the pattern; the
\* list of a carrier is its raw tokens that match, in their order.
C9_OnlyValidCodesKept ==
    LET organized == _organize(raw_codes, _organized_codes)
        Good(code) == code # <<>> /\ Strip(code) = code /\ FourDigits(code)
    IN /\ \A i \in 1..Len(organized) : \A j \in 1..Len(organized[i].v) :
              Good(organized[i].v[j])
       /\ \A code \in AllCodes(raw_codes, _organized_codes, _all_codes) : Good(code)
       /\ \A i \in 1..Len(raw_codes) :
              CodesByCarrier(organized, raw_codes[i].k)
                  = SelectSeq(TrimmedTokens(raw_codes[i].v), FourDigits)

\* C9 witness: a carrier whose raw tokens were partly dropped and partly kept.
C9_Witness ==
    /\ ret.op = "get_codes_by_carrier" /\ ret.outcome = "ok"
    /\ \E i \in 1..Len(raw_codes) :
           /\ Upper(raw_codes[i].k) = Upper(ret.args.carrier_name)
           /\ Len(ret.value.list) >= 2
           /\ Len(ret.value.list) < Len(TrimmedTokens(raw_codes[i].v))
    /\ _all_codes # None

\* C10: find_carriers_by_code(code) holds the uppercased name of every carrier
\* whose code list has the code, each once, in the order of the raw entries,
\* and is empty when no carrier has it.
C10_CarriersInEncounterOrder ==
    ret.op = "find_carriers_by_code" =>
        LET owners == {i \in 1..Len(raw_codes) :
                          ret.args.search_code \in SeqToSet(SelectSeq(TrimmedTokens(raw_codes[i].v),
                                                             FourDigits))}
        IN /\ Len(ret.value.list) = Cardinality(owners)
           /\ SeqToSet(ret.value.list) = {Upper(raw_codes[i].k) : i \in owners}
           /\ \A a, b \in 1..Len(ret.value.list) : a < b =>
                  \E i, j \in owners :
                      /\ i < j
                      /\ ret.value.list[a] = Upper(raw_codes[i].k)
                      /\ ret.value.list[b] = Upper(raw_codes[j].k)

\* C10 witness: two carriers share the code, the one registered under a
\* lowercase name first, and both were returned.
C10_Witness ==
    /\ ret.op = "find_carriers_by_code"
    /\ Len(ret.value.list) = 2
    /\ raw_codes[1].k # Upper(raw_codes[1].k)
    /\ undo # None /\ undo[1].stage = "added"
    /\ undo[1].carrier = raw_codes[Len(raw_codes)].k
    /\ ret.value.list[2] = Upper(undo[1].carrier)

====
